---- MODULE Spec2Model ----
(***************************************************************************)
(* Model of the data logger task, Tasks/Src/logger.c.                      *)
(*                                                                         *)
(* The logger thread is one process whose position is pc.  Its             *)
(* collaborators (the ThreadX timer and event flags, the FileX file        *)
(* system, the IMU driver) are modelled by what the logger's calls         *)
(* observe of them.  Offsets into buf are the C offsets (0-based).         *)
(***************************************************************************)
EXTENDS Integers, Sequences, FiniteSets, TLC

\* ---------------------------------------------------------------- bounds
\* Timer advances explored after boot.
MaxAdvance == 4
\* Updates explored per IMU sensor (accelerometer, gyroscope).
MaxImuUpdates == 2
\* Pre-existing log files have ids below MaxFiles.
MaxFiles == 3

\* ------------------------------------------------------- program constants
TX_TIMER_TICKS_PER_SECOND == 1000
LDPS_N == 2
WHEEL_N == 4
BufSize == 128

NoFile == -1

\* ------------------------------------------------------------- arithmetic
\* A uint32_t is the pair <<high half, low half>> of its 16-bit halves.
Half == 65536

U32(n) == << n \div Half, n % Half >>

NoTs == << -1, -1 >>

\* uint32_t addition and subtraction (modulo 2^32).
Add32(a, b) ==
  LET lo == a[2] + b[2] IN << (a[1] + b[1] + lo \div Half) % Half, lo % Half >>

Sub32(a, b) ==
  LET lo == a[2] - b[2] IN << (a[1] - b[1] - (IF lo < 0 THEN 1 ELSE 0)) % Half, lo % Half >>

\* a > b and a >= b on uint32_t.
Gt32(a, b) == a[1] > b[1] \/ (a[1] = b[1] /\ a[2] > b[2])

Ge32(a, b) == a = b \/ Gt32(a, b)

\* Whether a + b overflows 32 bits.
Carry32(a, b) == a[1] + b[1] + (a[2] + b[2]) \div Half >= Half

\* The sensor readings the drivers deliver: ldps_read's calibrated values, the
\* IMU's raw axes, the wheels' RPM as the 32-bit patterns of their floats
\* (0.0, 100.0, -1.0, 1.0 and three arbitrary patterns).
LdpsSamples == { <<100, 200>>, <<513, -2>> }
RawSamples == { <<-1, 0, 32767>>, <<258, -32768, 7>> }
RpmSamples == { << <<0, 0>>, <<17096, 0>>, <<49024, 0>>, <<0, 1>> >>,
                << <<16256, 0>>, <<0, 2>>, <<3, 4>>, <<65280, 255>> >> }

\* memcpy of a uint32_t / 32-bit float pattern on the little-endian target.
LE32(v) == << v[2] % 256, v[2] \div 256, v[1] % 256, v[1] \div 256 >>

\* memcpy of an int16_t (two's complement) on the little-endian target.
LE16_BigEndian(v) == LET u == (v + Half) % Half IN << u \div 256, u % 256 >>

LE16(v) == LET u == (v + Half) % Half IN << u % 256, u \div 256 >>

\* The uint32_t the first four bytes of a frame hold.
TsOf(f) == << f[3] + 256 * f[4], f[1] + 256 * f[2] >>

\* buf with bytes written at offset off.
Put(b, off, bytes) ==
  [i \in DOMAIN b |-> IF i >= off /\ i < off + Len(bytes) THEN bytes[i - off + 1] ELSE b[i]]

\* The len bytes at buf that logger_output(buf, len) is handed.
Take(b, len) == [i \in 1..len |-> b[i - 1]]

RECURSIVE Flatten(_)
Flatten(ss) == IF ss = <<>> THEN <<>> ELSE Head(ss) \o Flatten(Tail(ss))

\* ------------------------------------------------------------------ state
VARIABLES
  LOGGER_SD,            \* build: storage sink compiled in
  LOGGER_USB_SERIAL,    \* build: transport sink compiled in
  fxChecks,             \* build: FileX error-checking services (fxe_*) in use
  faulty,               \* the medium may fail fx_file_create and fx_file_open
  clock,                \* the 32-bit tick counter tx_time_get() returns
  wraps,                \* times the tick counter has wrapped around since boot
  event_flags,          \* the event flags set so far
  imu,                  \* the IMU driver's latest readings and their timestamps
  files,                \* ids of the log files on the medium
  preexisting,          \* ids of the log files on the medium before startup
  created,              \* ids this session's fx_file_create calls created
  logger_file,          \* id the handle logger_file is open on, or NoFile
  fid,
  pc,
  timestamp,
  buf,
  last_ldps_timestamp,
  last_acc_timestamp,
  last_gyro_timestamp,
  last_wheel_timestamp,
  last_sd_timestamp,
  accSeen,              \* imu.acc.timestamp as read by the readiness check
  gyroSeen,             \* imu.gyro.timestamp as read by the readiness check
  sampled,              \* the values read for the frame being encoded (v, the axes, the rpm)
  readFrom,             \* the upstream timestamp at each axis copy of that frame
  calls,                \* the external calls the latest step made, in order
  lastSent,             \* per sensor id (0: any): timestamp of the last frame handed over
  framed,               \* per edge class: upstream timestamps a frame was emitted for
  iterIds,              \* sensor ids of the frames of the current iteration
  lastFlushTs,          \* timestamp of the iteration of the last flush, or NoTs
  flushClock,           \* tick counter when the last flush was issued, or NoTs
  iterWraps,            \* wrap-arounds before the current iteration's capture
  sentWraps,            \* wrap-arounds before the capture of the last frame handed over
  sentFrom,             \* per edge class: readFrom of the last frame handed over
  iterFailed,           \* a sink call of the current iteration failed
  gateWraps,            \* per tick gate: wrap-arounds before the capture it records
  waits,                \* blocking waits performed
  advLeft,              \* timer advances still explored
  imuLeft               \* IMU updates still explored, per sensor

vars == << LOGGER_SD, LOGGER_USB_SERIAL, fxChecks, faulty, clock, wraps, event_flags, imu, files,
           preexisting, created, logger_file, fid, pc, timestamp, buf,
           last_ldps_timestamp, last_acc_timestamp, last_gyro_timestamp,
           last_wheel_timestamp, last_sd_timestamp, accSeen, gyroSeen, calls,
           lastSent, framed, iterIds, lastFlushTs, flushClock, iterWraps, sentWraps,
           sampled, readFrom, sentFrom, iterFailed, gateWraps, waits, advLeft, imuLeft >>

build == << LOGGER_SD, LOGGER_USB_SERIAL, fxChecks, faulty >>
fsVars == << files, preexisting, created, logger_file, fid >>
gates == << last_ldps_timestamp, last_acc_timestamp, last_gyro_timestamp,
            last_wheel_timestamp, last_sd_timestamp >>
ghosts == << lastSent, framed, iterIds, lastFlushTs, flushClock, iterWraps, sentWraps,
             sentFrom, iterFailed >>
locals == << sampled, readFrom >>

EVENT_FS_INIT == "EVENT_FS_INIT"
EVENT_CONFIG_LOADED == "EVENT_CONFIG_LOADED"

\* One external call: its name, the file it acts on and the bytes it is given.
Call(f, file, data) == [f |-> f, file |-> file, data |-> data]

\* The runs explored: every set of pre-existing log files and both FileX builds,
\* on a sound and on a faulty medium, with a short sampling phase; every sink
\* configuration with the timer alone;
\* the USB link alone with the IMU alone; both sinks with the timer and the IMU
\* together.  The gyroscope block is the accelerometer block's code over again:
\* the accelerometer takes the run's updates, the gyroscope one.
MixAdvance == MaxAdvance \div 2

MixImuUpdates == MaxImuUpdates \div 2

Runs ==
  [sd : {TRUE}, usb : {TRUE}, checks : BOOLEAN, pre : SUBSET (0..(MaxFiles - 1)),
   adv : {1}, upd : {0}, faulty : BOOLEAN]
  \cup [sd : BOOLEAN, usb : BOOLEAN, checks : {TRUE}, pre : {{}},
        adv : {MaxAdvance}, upd : {0}, faulty : {FALSE}]
  \cup [sd : {FALSE}, usb : {TRUE}, checks : {TRUE}, pre : {{}},
        adv : {0}, upd : {MaxImuUpdates}, faulty : {FALSE}]
  \cup [sd : {TRUE}, usb : {TRUE}, checks : {TRUE}, pre : {{}},
        adv : {MixAdvance}, upd : {MixImuUpdates}, faulty : {FALSE}]

Init ==
  /\ \E r \in Runs :
       /\ LOGGER_SD = r.sd
       /\ LOGGER_USB_SERIAL = r.usb
       /\ fxChecks = r.checks
       /\ faulty = r.faulty
       /\ preexisting = r.pre
       /\ advLeft = r.adv
       /\ imuLeft = [acc |-> r.upd, gyro |-> IF r.upd > 0 THEN 1 ELSE 0]
  /\ clock = U32(0)
  /\ wraps = 0
  /\ event_flags = {}
  /\ imu = [acc |-> [timestamp |-> U32(0), raw |-> <<0, 0, 0>>],
            gyro |-> [timestamp |-> U32(0), raw |-> <<0, 0, 0>>]]
  /\ files = preexisting
  /\ created = {}
  /\ logger_file = NoFile
  /\ fid = 0
  /\ pc = <<"start", "wait">>
  /\ timestamp = U32(0)
  /\ buf = [i \in 0..(BufSize - 1) |-> 0]
  /\ last_ldps_timestamp = U32(0)
  /\ last_acc_timestamp = U32(0)
  /\ last_gyro_timestamp = U32(0)
  /\ last_wheel_timestamp = U32(0)
  /\ last_sd_timestamp = U32(0)
  /\ accSeen = U32(0)
  /\ gyroSeen = U32(0)
  /\ calls = <<>>
  /\ lastSent = [c \in 0..4 |-> NoTs]
  /\ framed = [acc |-> {}, gyro |-> {}]
  /\ iterIds = <<>>
  /\ lastFlushTs = NoTs
  /\ flushClock = NoTs
  /\ iterWraps = 0
  /\ sentWraps = 0
  /\ sampled = <<>>
  /\ readFrom = <<>>
  /\ sentFrom = [acc |-> <<>>, gyro |-> <<>>]
  /\ iterFailed = FALSE
  /\ gateWraps = [ldps |-> 0, wheel |-> 0, sd |-> 0]
  /\ waits = 0

\* ------------------------------------------------------------ environment
\* Another thread sets an event flag (file system mounted, configuration loaded).
SetEvent ==
  \E e \in {EVENT_FS_INIT, EVENT_CONFIG_LOADED} :
    /\ e \notin event_flags
    /\ event_flags' = event_flags \cup {e}
    /\ calls' = <<>>
    /\ UNCHANGED << build, clock, wraps, imu, fsVars, pc, timestamp, buf, gates, accSeen,
                    gyroSeen, ghosts, locals, gateWraps, waits, advLeft, imuLeft >>

\* Timer advances one step may make: one tick, or many ticks while the logger
\* thread does not run (it is preempted, or blocked in a sink's write or flush);
\* while it is blocked on the event flags, long enough to bring the 32-bit
\* counter to the edge of its wrap-around.
WrapJump == Sub32(U32(0), U32(TX_TIMER_TICKS_PER_SECOND + 1))

TickSteps(p, c, w) ==
  {U32(1), U32(TX_TIMER_TICKS_PER_SECOND)}
    \cup (IF p = <<"start", "wait">> /\ w = 0 /\ ~Ge32(c, WrapJump) THEN {WrapJump} ELSE {})

\* The timer interrupt advances the tick counter.
TimerTick ==
  \E d \in TickSteps(pc, clock, wraps) :
    /\ advLeft > 0
    /\ clock' = Add32(clock, d)
    /\ wraps' = wraps + (IF Carry32(clock, d) THEN 1 ELSE 0)
    /\ advLeft' = advLeft - 1
    /\ calls' = <<>>
    /\ UNCHANGED << build, event_flags, imu, fsVars, pc, timestamp, buf, gates, accSeen,
                    gyroSeen, ghosts, locals, gateWraps, waits, imuLeft >>

\* The IMU driver publishes a new reading of sensor s with a new timestamp.
ImuUpdate ==
  \E s \in {"acc", "gyro"}, r \in RawSamples :
    /\ imuLeft[s] > 0
    /\ imu' = [imu EXCEPT ![s] = [timestamp |-> Add32(@.timestamp, U32(1)), raw |-> r]]
    /\ imuLeft' = [imuLeft EXCEPT ![s] = @ - 1]
    /\ calls' = <<>>
    /\ UNCHANGED << build, clock, wraps, event_flags, fsVars, pc, timestamp, buf, gates, accSeen,
                    gyroSeen, ghosts, locals, gateWraps, waits, advLeft >>

\* ------------------------------------------------------------------ FileX
\* fx_file_open(&sdio_disk, &logger_file, fn, FX_OPEN_FOR_WRITE) with the handle
\* open on h (or NoFile) and the files fs on the medium.  Opening through a
\* handle that is still open is refused by the error-checking services
\* (FX_PTR_ERROR); without them the handle is set up again on the file found.
FxFileOpen(h, fs, id, checks) ==
  IF h # NoFile /\ checks THEN [status |-> "FX_PTR_ERROR", handle |-> h]
  ELSE IF id \notin fs THEN [status |-> "FX_NOT_FOUND", handle |-> h]
  ELSE [status |-> "FX_SUCCESS", handle |-> id]

\* fx_file_close(&logger_file): the handle is closed afterwards.
FxFileClose(h) == NoFile

\* fx_file_create(&sdio_disk, fn): the file exists afterwards (FX_ALREADY_CREATED
\* leaves an existing file as it is).
FxFileCreate(fs, id) == fs \cup {id}

\* ----------------------------------------------------------------- startup
\* tx_event_flags_get(.., FS_INIT | CONFIG_LOADED, TX_AND, .., TX_WAIT_FOREVER)
\* returns once every requested flag is set.
EventsSatisfied_Or(flags) == \E e \in {EVENT_FS_INIT, EVENT_CONFIG_LOADED} : e \in flags

EventsSatisfied(flags) == {EVENT_FS_INIT, EVENT_CONFIG_LOADED} \subseteq flags

WaitEvents ==
  /\ pc = <<"start", "wait">>
  /\ EventsSatisfied(event_flags)
  /\ waits' = waits + 1
  /\ fid' = 0
  /\ pc' = <<"start", "probe">>
  /\ calls' = << Call("tx_event_flags_get", NoFile, <<>>) >>
  /\ UNCHANGED << build, clock, wraps, event_flags, imu, files, preexisting, created, logger_file,
                  timestamp, buf, gates, accSeen, gyroSeen, ghosts, locals, gateWraps, advLeft, imuLeft >>

\* The statuses fx_file_create and fx_file_open may return on the medium: on a
\* faulty medium either may fail (FX_IO_ERROR, FX_NO_MORE_SPACE, ...).
MediaOutcomes(bad) == IF bad THEN BOOLEAN ELSE {TRUE}

\* Whether the rotation loop is left after the create and the open of the
\* selected id: the break is unconditional, their statuses are not read.
RotationDone_Retry(createOk, openOk) == createOk /\ openOk

RotationDone(createOk, openOk) == TRUE

\* One pass of the rotation loop: probe fid; on failure close, create, open, seek
\* and leave the loop, on success advance fid.
RotateStep ==
  /\ pc = <<"start", "probe">>
  /\ LET probe == FxFileOpen(logger_file, files, fid, fxChecks) IN
       IF probe.status # "FX_SUCCESS"
       THEN \E createOk \in MediaOutcomes(faulty), openOk \in MediaOutcomes(faulty) :
            LET closed == FxFileClose(probe.handle)
                fs == IF createOk THEN FxFileCreate(files, fid) ELSE files
                opened == IF openOk THEN FxFileOpen(closed, fs, fid, fxChecks)
                          ELSE [status |-> "FX_IO_ERROR", handle |-> closed]
            IN /\ files' = fs
               /\ created' = IF fid \in fs \ files THEN created \cup {fid} ELSE created
               /\ logger_file' = opened.handle
               /\ fid' = fid
               /\ pc' = IF RotationDone(createOk, opened.status = "FX_SUCCESS")
                        THEN <<"loop", "top">> ELSE <<"start", "probe">>
               /\ calls' = << Call("fx_file_open", fid, <<>>),
                              Call("fx_file_close", probe.handle, <<>>),
                              Call("fx_file_create", fid, <<>>),
                              Call("fx_file_open", fid, <<>>),
                              Call("fx_file_seek", opened.handle, <<>>) >>
       ELSE /\ logger_file' = probe.handle
            /\ fid' = fid + 1
            /\ pc' = <<"start", "probe">>
            /\ calls' = << Call("fx_file_open", fid, <<>>) >>
            /\ UNCHANGED << files, created >>
  /\ UNCHANGED << build, clock, wraps, event_flags, imu, preexisting, timestamp, buf, gates,
                  accSeen, gyroSeen, ghosts, locals, gateWraps, waits, advLeft, imuLeft >>

\* ------------------------------------------------------------- scheduler
\* The minimum gap of the tick-gated classes, in ticks.
TickThreshold == TX_TIMER_TICKS_PER_SECOND \div 1000

\* timestamp - last_x_timestamp > TX_TIMER_TICKS_PER_SECOND / 1000 (uint32_t).
TickReady_NoGate(now, last) == TRUE

TickReady_Absolute(now, last) == Gt32(now, Add32(last, U32(TickThreshold)))

TickReady(now, last) == Gt32(Sub32(now, last), U32(TickThreshold))

\* timestamp - last_sd_timestamp > TX_TIMER_TICKS_PER_SECOND (uint32_t).
FlushReady_Ge(now, last) == Ge32(Sub32(now, last), U32(TX_TIMER_TICKS_PER_SECOND))

FlushReady(now, last) == Gt32(Sub32(now, last), U32(TX_TIMER_TICKS_PER_SECOND))

\* imu.x.timestamp != last_x_timestamp.
EdgeReady_Always(upstream, last) == TRUE

EdgeReady(upstream, last) == upstream # last

\* The order in which one iteration evaluates its blocks (all sensor classes
\* enabled: LDPS_ENABLE, IMU_ENABLE, WHEEL_ENABLE).
BlockOrder_Swapped == << "ldps", "gyro", "acc", "wheel", "sd" >>

BlockOrder == << "ldps", "acc", "gyro", "wheel", "sd" >>

\* Where control goes after block b: the check of the next block, or the loop top.
After(b) ==
  LET i == CHOOSE k \in 1..Len(BlockOrder) : BlockOrder[k] = b
  IN IF i < Len(BlockOrder) THEN << BlockOrder[i + 1], "chk" >> ELSE << "loop", "top" >>

\* ---------------------------------------------------------------- encoder
\* uint32_t timestamp = tx_time_get(); memcpy(buf, &timestamp, 4).
TimestampBytes_LowByte(t) == LE32(<< 0, t[2] % 256 >>)

TimestampBytes(t) == LE32(t)

\* The range-array frame: id, data_length, LDPS_N 16-bit readings, trailer.
LdpsDataLength_Count == LDPS_N

LdpsDataLength == LDPS_N * 2

LdpsFrameLen == 8 + LDPS_N * 2

LdpsEncode_NoLength(b, reading) ==
  LET b1 == Put(b, 4, << 1 >>)
      b2 == Put(b1, 6, Flatten([i \in 1..LDPS_N |-> LE16(reading[i])]))
  IN Put(b2, 6 + LDPS_N * 2, << 13, 10 >>)

LdpsEncode(b, reading) ==
  LET b1 == Put(b, 4, << 1, LdpsDataLength % 256 >>)
      b2 == Put(b1, 6, Flatten([i \in 1..LDPS_N |-> LE16(reading[i])]))
  IN Put(b2, 6 + LDPS_N * 2, << 13, 10 >>)

\* The accelerometer (0x02) and gyroscope (0x03) frames.
EdgeId(s) == IF s = "acc" THEN 2 ELSE 3

EdgeFrameLen_Short == 14 - 1

EdgeFrameLen == 14

EdgeHeader(b, s) == Put(b, 4, << EdgeId(s), 6 >>)

EdgeAxis_Reversed(b, axis, v) == Put(b, 12 - 2 * axis, LE16(v))

EdgeAxis(b, axis, v) == Put(b, 4 + 2 * axis, LE16(v))

EdgeTrailer(b) == Put(b, 12, << 13, 10 >>)

\* The wheel-speed frame: id, WHEEL_N 32-bit floats, trailer; no length byte.
WheelFrameLen == WHEEL_N * 4 + 7

WheelEncode(b, rpm) ==
  LET b1 == Put(b, 4, << 4 >>)
      b2 == Put(b1, 5, Flatten([i \in 1..WHEEL_N |-> LE32(rpm[i])]))
  IN Put(b2, WHEEL_N * 4 + 5, << 13, 10 >>)

\* ------------------------------------------------------------------- sink
\* The calls logger_output(buf, len) makes, with the log-file handle on h.
LoggerOutput_NoUsb(b, len, sd, usb, h) ==
  << Call("logger_output", NoFile, Take(b, len)) >>
    \o (IF sd THEN << Call("fx_file_write", h, Take(b, len)) >> ELSE <<>>)
    \o << Call("SEGGER_RTT_printf", NoFile, << b[4] >>) >>

LoggerOutput(b, len, sd, usb, h) ==
  << Call("logger_output", NoFile, Take(b, len)) >>
    \o (IF sd THEN << Call("fx_file_write", h, Take(b, len)) >> ELSE <<>>)
    \o (IF usb THEN << Call("CDC_Transmit_FS", NoFile, Take(b, len)) >> ELSE <<>>)
    \o << Call("SEGGER_RTT_printf", NoFile, << b[4] >>) >>

\* Where block b stands once its frame is encoded: at its logger_output call.
Encoded_SkipOutput(b) == << b, "gate" >>

Encoded(b) == << b, "out" >>

\* Whether the sinks' calls succeed: fx_file_write and CDC_Transmit_FS return a
\* status, SEGGER_RTT_printf is not a sink that fails.
SinkOutcomes(sd, usb) == IF sd \/ usb THEN BOOLEAN ELSE {TRUE}

\* Where block b stands after logger_output returns: logger_output is void and
\* drops the statuses of its sinks, the gate update follows whatever they were.
AfterOutput_Retry(b, ok) == IF ok THEN << b, "gate" >> ELSE << b, "out" >>

AfterOutput(b, ok) == << b, "gate" >>

\* The hand-over of len bytes of buf by the block at pc: the sink's calls, and
\* the record of what was handed over.
Output(len) ==
  LET frame == Take(buf, len) IN
    /\ calls' = LoggerOutput(buf, len, LOGGER_SD, LOGGER_USB_SERIAL, logger_file)
    /\ \E ok \in SinkOutcomes(LOGGER_SD, LOGGER_USB_SERIAL) :
         /\ iterFailed' = (iterFailed \/ ~ok)
         /\ pc' = AfterOutput(pc[1], ok)
    /\ sentFrom' = IF pc[1] \in {"acc", "gyro"} THEN [sentFrom EXCEPT ![pc[1]] = readFrom]
                   ELSE sentFrom
    /\ lastSent' = [lastSent EXCEPT ![0] = TsOf(frame), ![frame[5]] = TsOf(frame)]
    /\ iterIds' = Append(iterIds, frame[5])
    /\ sentWraps' = iterWraps
    /\ framed' = IF pc[1] = "acc" THEN [framed EXCEPT !.acc = @ \cup {accSeen}]
                 ELSE IF pc[1] = "gyro" THEN [framed EXCEPT !.gyro = @ \cup {gyroSeen}]
                 ELSE framed

\* ------------------------------------------------------------------- loop
\* The top of the sampling loop: capture the tick counter, write it to buf.
LoopTop ==
  /\ pc = << "loop", "top" >>
  /\ timestamp' = clock
  /\ buf' = Put(buf, 0, TimestampBytes(clock))
  /\ iterIds' = <<>>
  /\ iterWraps' = wraps
  /\ iterFailed' = FALSE
  /\ calls' = <<>>
  /\ pc' = << BlockOrder[1], "chk" >>
  /\ UNCHANGED << build, clock, wraps, event_flags, imu, fsVars, gates, accSeen, gyroSeen,
                  lastSent, framed, lastFlushTs, flushClock, sentWraps, sentFrom, locals,
                  gateWraps, waits, advLeft, imuLeft >>

\* The range-array block: readiness check and encoding, hand-over, gate update.
LdpsCheck ==
  /\ pc = << "ldps", "chk" >>
  /\ IF TickReady(timestamp, last_ldps_timestamp)
     THEN \E v \in LdpsSamples :
            /\ buf' = LdpsEncode(buf, v)
            /\ sampled' = v
            /\ pc' = Encoded("ldps")
     ELSE /\ buf' = buf
          /\ sampled' = sampled
          /\ pc' = After("ldps")
  /\ calls' = <<>>
  /\ UNCHANGED << build, clock, wraps, event_flags, imu, fsVars, timestamp, gates, accSeen,
                  gyroSeen, ghosts, readFrom, gateWraps, waits, advLeft, imuLeft >>

LdpsOutput ==
  /\ pc = << "ldps", "out" >>
  /\ Output(LdpsFrameLen)
  /\ UNCHANGED << build, clock, wraps, event_flags, imu, fsVars, timestamp, buf, gates,
                  accSeen, gyroSeen, lastFlushTs, flushClock, iterWraps, locals, gateWraps,
                  waits, advLeft, imuLeft >>

LdpsGate ==
  /\ pc = << "ldps", "gate" >>
  /\ last_ldps_timestamp' = timestamp
  /\ gateWraps' = [gateWraps EXCEPT !.ldps = iterWraps]
  /\ sampled' = <<>>
  /\ calls' = <<>>
  /\ pc' = After("ldps")
  /\ UNCHANGED << build, clock, wraps, event_flags, imu, fsVars, timestamp, buf,
                  last_acc_timestamp, last_gyro_timestamp, last_wheel_timestamp,
                  last_sd_timestamp, accSeen, gyroSeen, ghosts, readFrom, waits, advLeft,
                  imuLeft >>

\* The accelerometer and gyroscope blocks, statement by statement: the IMU
\* driver may publish a reading between any two of them.
LastEdge(s) == IF s = "acc" THEN last_acc_timestamp ELSE last_gyro_timestamp

EdgeCheck ==
  \E s \in {"acc", "gyro"} :
    /\ pc = << s, "chk" >>
    /\ accSeen' = IF s = "acc" THEN imu.acc.timestamp ELSE accSeen
    /\ gyroSeen' = IF s = "gyro" THEN imu.gyro.timestamp ELSE gyroSeen
    /\ IF EdgeReady(imu[s].timestamp, LastEdge(s))
       THEN /\ buf' = EdgeHeader(buf, s)
            /\ pc' = << s, "x" >>
       ELSE /\ buf' = buf
            /\ pc' = After(s)
    /\ calls' = <<>>
    /\ UNCHANGED << build, clock, wraps, event_flags, imu, fsVars, timestamp, gates, ghosts,
                    locals, gateWraps, waits, advLeft, imuLeft >>

EdgeCopy ==
  \E s \in {"acc", "gyro"}, axis \in 1..3 :
    /\ pc = << s, << "x", "y", "z" >>[axis] >>
    /\ buf' = IF axis = 3 THEN EdgeTrailer(EdgeAxis(buf, axis, imu[s].raw[axis]))
              ELSE EdgeAxis(buf, axis, imu[s].raw[axis])
    /\ sampled' = Append(sampled, imu[s].raw[axis])
    /\ readFrom' = Append(readFrom, imu[s].timestamp)
    /\ pc' = IF axis = 3 THEN Encoded(s) ELSE << s, << "y", "z" >>[axis] >>
    /\ calls' = <<>>
    /\ UNCHANGED << build, clock, wraps, event_flags, imu, fsVars, timestamp, gates, accSeen,
                    gyroSeen, ghosts, gateWraps, waits, advLeft, imuLeft >>

EdgeOutput ==
  \E s \in {"acc", "gyro"} :
    /\ pc = << s, "out" >>
    /\ Output(EdgeFrameLen)
    /\ UNCHANGED << build, clock, wraps, event_flags, imu, fsVars, timestamp, buf, gates,
                    accSeen, gyroSeen, lastFlushTs, flushClock, iterWraps, locals, gateWraps,
                    waits, advLeft, imuLeft >>

EdgeGate ==
  \E s \in {"acc", "gyro"} :
    /\ pc = << s, "gate" >>
    /\ last_acc_timestamp' = IF s = "acc" THEN imu.acc.timestamp ELSE last_acc_timestamp
    /\ last_gyro_timestamp' = IF s = "gyro" THEN imu.gyro.timestamp ELSE last_gyro_timestamp
    /\ sampled' = <<>>
    /\ readFrom' = <<>>
    /\ calls' = <<>>
    /\ pc' = After(s)
    /\ UNCHANGED << build, clock, wraps, event_flags, imu, fsVars, timestamp, buf,
                    last_ldps_timestamp, last_wheel_timestamp, last_sd_timestamp, accSeen,
                    gyroSeen, ghosts, gateWraps, waits, advLeft, imuLeft >>

\* The wheel-speed block.
WheelCheck ==
  /\ pc = << "wheel", "chk" >>
  /\ IF TickReady(timestamp, last_wheel_timestamp)
     THEN \E rpm \in RpmSamples :
            /\ buf' = WheelEncode(buf, rpm)
            /\ sampled' = rpm
            /\ pc' = Encoded("wheel")
     ELSE /\ buf' = buf
          /\ sampled' = sampled
          /\ pc' = After("wheel")
  /\ calls' = <<>>
  /\ UNCHANGED << build, clock, wraps, event_flags, imu, fsVars, timestamp, gates, accSeen,
                  gyroSeen, ghosts, readFrom, gateWraps, waits, advLeft, imuLeft >>

WheelOutput ==
  /\ pc = << "wheel", "out" >>
  /\ Output(WheelFrameLen)
  /\ UNCHANGED << build, clock, wraps, event_flags, imu, fsVars, timestamp, buf, gates,
                  accSeen, gyroSeen, lastFlushTs, flushClock, iterWraps, locals, gateWraps,
                  waits, advLeft, imuLeft >>

WheelGate ==
  /\ pc = << "wheel", "gate" >>
  /\ last_wheel_timestamp' = timestamp
  /\ gateWraps' = [gateWraps EXCEPT !.wheel = iterWraps]
  /\ sampled' = <<>>
  /\ calls' = <<>>
  /\ pc' = After("wheel")
  /\ UNCHANGED << build, clock, wraps, event_flags, imu, fsVars, timestamp, buf,
                  last_ldps_timestamp, last_acc_timestamp, last_gyro_timestamp,
                  last_sd_timestamp, accSeen, gyroSeen, ghosts, readFrom, waits, advLeft,
                  imuLeft >>

\* The periodic flush of the storage medium (compiled in with LOGGER_SD).
SdCheck ==
  /\ pc = << "sd", "chk" >>
  /\ IF LOGGER_SD /\ FlushReady(timestamp, last_sd_timestamp)
     THEN /\ calls' = << Call("fx_media_flush", NoFile, <<>>) >>
          /\ \E ok \in BOOLEAN : iterFailed' = (iterFailed \/ ~ok)
          /\ last_sd_timestamp' = timestamp
          /\ gateWraps' = [gateWraps EXCEPT !.sd = iterWraps]
          /\ lastFlushTs' = timestamp
          /\ flushClock' = clock
     ELSE /\ calls' = <<>>
          /\ UNCHANGED << last_sd_timestamp, gateWraps, lastFlushTs, flushClock, iterFailed >>
  /\ pc' = After("sd")
  /\ UNCHANGED << build, clock, wraps, event_flags, imu, fsVars, timestamp, buf,
                  last_ldps_timestamp, last_acc_timestamp, last_gyro_timestamp,
                  last_wheel_timestamp, accSeen, gyroSeen, lastSent, framed, iterIds,
                  iterWraps, sentWraps, sentFrom, locals, waits, advLeft, imuLeft >>

Next ==
  \/ SetEvent \/ TimerTick \/ ImuUpdate
  \/ WaitEvents \/ RotateStep
  \/ LoopTop
  \/ LdpsCheck \/ LdpsOutput \/ LdpsGate
  \/ EdgeCheck \/ EdgeCopy \/ EdgeOutput \/ EdgeGate
  \/ WheelCheck \/ WheelOutput \/ WheelGate
  \/ SdCheck

Spec == Init /\ [][Next]_vars

\* ------------------------------------------------------------- properties
\* The latest step handed a frame to logger_output; the frame; its sensor id.
Handed == calls # <<>> /\ calls[1].f = "logger_output"

HandedFrame == calls[1].data

HandedId == HandedFrame[5]

\* The latest step flushed the storage medium.
Flushed == calls # <<>> /\ calls[1].f = "fx_media_flush"

BlockId(b) == CASE b = "ldps" -> 1 [] b = "acc" -> 2 [] b = "gyro" -> 3 [] b = "wheel" -> 4
                [] OTHER -> 0

InLoop == pc[1] # "start"

\* C1: a frame of a tick-gated class (0x01, 0x04) is never handed over less than
\* TX_TIMER_TICKS_PER_SECOND / 1000 ticks (of captured timestamp) after the
\* previous frame of that class: the difference modulo 2^32 is at least the
\* threshold, and while the tick counter has not wrapped the timestamp has
\* not decreased, so that this is the plain difference.
C1_TickGatedSpacing ==
  [][\A c \in {1, 4} :
       (Handed' /\ HandedId' = c /\ lastSent[c] # NoTs)
         => /\ Ge32(Sub32(TsOf(HandedFrame'), lastSent[c]), U32(TickThreshold))
            /\ (wraps' = 0 => Ge32(TsOf(HandedFrame'), lastSent[c]))]_vars

\* A wheel-speed frame handed over exactly one tick past the threshold after the
\* previous one (whose timestamp the gate still holds).
C1_Witness ==
  /\ Handed
  /\ HandedId = 4
  /\ last_wheel_timestamp # U32(0)
  /\ Sub32(TsOf(HandedFrame), last_wheel_timestamp) = U32(TickThreshold + 1)

\* C2: a frame of an edge-triggered class (0x02, 0x03) is handed over only in an
\* iteration whose readiness check read an upstream timestamp that differs from
\* the recorded one and for which no frame of the class was handed over before.
C2_EdgeOncePerUpstream ==
  [][\A s \in {"acc", "gyro"} :
       (Handed' /\ HandedId' = EdgeId(s))
         => LET seen == IF s = "acc" THEN accSeen ELSE gyroSeen
            IN /\ seen \notin framed[s]
               /\ seen # LastEdge(s)]_vars

\* A second accelerometer frame, for a second upstream timestamp.
C2_Witness == Handed /\ HandedId = 2 /\ Cardinality(framed.acc) = 2

\* The least id for which no log file existed before startup.
LeastAbsent(S) == CHOOSE n \in 0..Cardinality(S) : n \notin S /\ \A m \in 0..(n - 1) : m \in S

\* C3: after rotation the log-file handle is open on the file with the least id
\* that did not exist before startup, and that file was created (empty) by this
\* session: no pre-existing file is selected.
C3_RotationSelectsLeastAbsent ==
  InLoop => /\ logger_file = LeastAbsent(preexisting)
            /\ logger_file \notin preexisting
            /\ logger_file \in created

\* C4 as claimed: once a flush has been issued, no window of one flush interval
\* (TX_TIMER_TICKS_PER_SECOND ticks) passes without another one.
C4_FlushEveryInterval ==
  (LOGGER_SD /\ flushClock # NoTs)
    => ~Gt32(Sub32(clock, flushClock), U32(TX_TIMER_TICKS_PER_SECOND))

\* C4 as amended: the flush check flushes exactly when the storage sink is
\* compiled in and the iteration's timestamp is more than
\* TX_TIMER_TICKS_PER_SECOND ticks (modulo 2^32) past the timestamp of the last
\* flush (0 before the first), whatever frames the iteration handed over.
C4_FlushGate ==
  [][(pc = << "sd", "chk" >> /\ pc' # pc)
       => (Flushed' <=> /\ LOGGER_SD
                        /\ Gt32(Sub32(timestamp, IF lastFlushTs = NoTs THEN U32(0) ELSE lastFlushTs),
                                U32(TX_TIMER_TICKS_PER_SECOND)))]_vars

\* A second flush, in an iteration that handed over no frame.
C4_Witness ==
  /\ Flushed
  /\ iterIds = <<>>
  /\ lastFlushTs # NoTs
  /\ Gt32(lastFlushTs, U32(2 * TX_TIMER_TICKS_PER_SECOND))

\* C5: the frames of one iteration carry strictly increasing sensor ids out of
\* 0x01..0x04 (at most four, one per class), and a frame is handed over by its
\* own class's block, before control leaves that block.
C5_FixedOrder ==
  /\ Len(iterIds) <= 4
  /\ \A i \in 1..Len(iterIds) : iterIds[i] \in 1..4
  /\ \A i \in 1..(Len(iterIds) - 1) : iterIds[i] < iterIds[i + 1]
  /\ Handed => /\ pc[2] = "gate"
               /\ HandedId = BlockId(pc[1])
               /\ iterIds[Len(iterIds)] = HandedId

\* An iteration that handed over a frame of each of the four classes.
C5_Witness == iterIds = << 1, 2, 3, 4 >>

\* C6: every frame handed over ends, at the length handed over, with 0x0D 0x0A.
C6_Trailer ==
  Handed => /\ Len(HandedFrame) >= 2
            /\ HandedFrame[Len(HandedFrame) - 1] = 13
            /\ HandedFrame[Len(HandedFrame)] = 10

\* A gyroscope frame handed over.
C6_Witness == Handed /\ HandedId = 3 /\ Len(HandedFrame) = 14

IsPayloadOf(bytes, samples, width) ==
  \E r \in samples :
    bytes = Flatten([i \in 1..Len(r) |-> IF width = 2 THEN LE16(r[i]) ELSE LE32(r[i])])

IsWrite(c) == c.f = "fx_file_write"

IsTransmit(c) == c.f = "CDC_Transmit_FS"

IsTrace(c) == c.f = "SEGGER_RTT_printf"

\* C8: handing over a frame writes its bytes, at its length, once to every sink
\* compiled in (the log file, the USB link) and to no other, and prints exactly
\* one trace record, with the frame's sensor id byte.
C8_EverySink ==
  Handed =>
    LET f == HandedFrame
        writes == SelectSeq(calls, IsWrite)
        sends == SelectSeq(calls, IsTransmit)
        traces == SelectSeq(calls, IsTrace)
    IN /\ writes = (IF LOGGER_SD THEN << Call("fx_file_write", logger_file, f) >> ELSE <<>>)
       /\ sends = (IF LOGGER_USB_SERIAL THEN << Call("CDC_Transmit_FS", NoFile, f) >> ELSE <<>>)
       /\ traces = << Call("SEGGER_RTT_printf", NoFile, << f[5] >>) >>
       /\ f = Take(buf, Len(f))

\* An accelerometer frame handed over in a build with the USB link alone.
C8_Witness == Handed /\ LOGGER_USB_SERIAL /\ ~LOGGER_SD /\ HandedId = 2

Ready == {EVENT_FS_INIT, EVENT_CONFIG_LOADED} \subseteq event_flags

C10_Monotonic ==
  [][(Handed' /\ lastSent[0] # NoTs) => Ge32(TsOf(HandedFrame'), lastSent[0])]_vars

\* C10 as amended: a frame carries the tick counter value captured at the top of
\* its iteration, and is never below the timestamp of the frame handed over
\* before it unless the tick counter wrapped around between the two captures.
C10_MonotonicBetweenWraps ==
  [][Handed' => /\ TsOf(HandedFrame') = timestamp
                /\ (lastSent[0] # NoTs /\ sentWraps = iterWraps)
                     => Ge32(TsOf(HandedFrame'), lastSent[0])]_vars

\* A range-array frame with a later timestamp than the previous one (which the
\* gate still holds), without a wrap-around in between.
C10_Witness ==
  /\ Handed
  /\ HandedId = 1
  /\ wraps = 0
  /\ last_ldps_timestamp # U32(0)
  /\ Gt32(TsOf(HandedFrame), last_ldps_timestamp)

\* The bytes of the frame handed over that follow its four timestamp bytes.
AfterTimestamp(f) == SubSeq(f, 5, Len(f))

\* C11 (as claimed): the range-array frame encoded from the calibrated readings
\* 100 and 200 has length 12 and carries, after the timestamp, the bytes
\* 01 04 00 64 00 C8 0D 0A.
C11_RangeFrameAsClaimed ==
  (Handed /\ HandedId = 1 /\ sampled = << 100, 200 >>) =>
    /\ Len(HandedFrame) = 12
    /\ AfterTimestamp(HandedFrame) = << 1, 4, 0, 100, 0, 200, 13, 10 >>

\* C11 (amended): the range-array frame encoded from the calibrated readings 100
\* and 200 has length 12 and carries, after the timestamp, the bytes
\* 01 04 64 00 C8 00 0D 0A: each reading's low byte comes first.
C11_RangeFrameLittleEndian ==
  (Handed /\ HandedId = 1 /\ sampled = << 100, 200 >>) =>
    /\ Len(HandedFrame) = 12
    /\ AfterTimestamp(HandedFrame) = << 1, 4, 100, 0, 200, 0, 13, 10 >>

C11_Witness == Handed /\ HandedId = 1 /\ sampled = << 100, 200 >>

\* C12: the accelerometer (0x02) or gyroscope (0x03) frame encoded from the raw
\* axes X = -1, Y = 0, Z = 32767 carries, after the timestamp, the bytes
\* id 06 FF FF 00 00 FF 7F 0D 0A: the raw values, uncalibrated, in the order
\* X, Y, Z, each as a little-endian two's-complement 16-bit value.
C12_AxisFrame ==
  (Handed /\ HandedId \in {2, 3} /\ sampled = << -1, 0, 32767 >>) =>
    /\ Len(HandedFrame) = 14
    /\ AfterTimestamp(HandedFrame) = << HandedId, 6, 255, 255, 0, 0, 255, 127, 13, 10 >>

C12_Witness ==
  /\ Handed /\ HandedId = 2 /\ sampled = << -1, 0, 32767 >>
  /\ lastSent[3] # NoTs

\* C13: the latest upstream update of an edge-triggered class is never skipped.
\* Once the loop has left the class's block with the gate equal to the
\* upstream timestamp, no frame of the class is due until the next update; so
\* the last frame handed over for the class carries that latest update: at
\* least one of its axes was copied after the update was published.
C13_LatestNeverSkipped ==
  \A s \in {"acc", "gyro"} :
    (pc[1] # s /\ imu[s].timestamp # U32(0) /\ LastEdge(s) = imu[s].timestamp) =>
      /\ sentFrom[s] # <<>>
      /\ \E k \in 1..3 : sentFrom[s][k] = imu[s].timestamp

\* The sample gate of the class of block b.
GateOf(b) ==
  CASE b = "ldps" -> last_ldps_timestamp
    [] b = "acc" -> last_acc_timestamp
    [] b = "gyro" -> last_gyro_timestamp
    [] b = "wheel" -> last_wheel_timestamp

Classes == { "ldps", "acc", "gyro", "wheel" }

HandedThisIteration(id) == \E k \in 1..Len(iterIds) : iterIds[k] = id

\* C14: the sample gate of a class changes only in the step that follows the
\* hand-over of a frame of that class in the same iteration; the step that
\* hands a frame over (of whatever class) and the step that flushes change no
\* class's gate, and neither does a check that finds the class not ready.
C14_GateOnlyAfterHandOff ==
  [][ \A b \in Classes :
        /\ GateOf(b)' # GateOf(b) =>
             /\ pc = << b, "gate" >>
             /\ HandedThisIteration(BlockId(b))
        /\ (Handed' \/ Flushed') => GateOf(b)' = GateOf(b)
        /\ (pc = << b, "chk" >> /\ pc' = After(b)) => GateOf(b)' = GateOf(b) ]_vars

C14_Witness ==
  /\ pc = << "acc", "chk" >>
  /\ iterIds = << 1 >>
  /\ last_ldps_timestamp = timestamp
  /\ last_wheel_timestamp # timestamp
  /\ lastFlushTs # NoTs

\* C15: during rotation the log-file handle is never still open on an earlier
\* file when the next probe open is attempted: a file whose probe open
\* succeeded is closed before the next id is probed.
C15_ClosedBeforeNextProbe ==
  pc = << "start", "probe" >> => logger_file = NoFile

\* What the check of block b compares: whether the class is ready.
ReadyFor(b) ==
  CASE b \in { "ldps", "wheel" } -> TickReady(timestamp, GateOf(b))
    [] b \in { "acc", "gyro" } -> EdgeReady(imu[b].timestamp, GateOf(b))

\* C16: whatever the sinks' writes and the flush return, the loop goes on as
\* after a success.  The step after a hand-over is the class's gate update,
\* with the value it takes after a successful write; no frame of a class is
\* handed over twice in an iteration; a flush records its tick and ends the
\* iteration; and every check, also after a failure in the same iteration,
\* decides on the gate and the tick or upstream timestamp alone.
C16_FailuresIgnored ==
  [][ /\ Handed' =>
           /\ pc' = << pc[1], "gate" >>
           /\ ~HandedThisIteration(HandedId')
      /\ \A b \in Classes :
           /\ (pc = << b, "gate" >> /\ pc' # pc) =>
                /\ GateOf(b)' = (IF b \in { "ldps", "wheel" } THEN timestamp
                                 ELSE imu[b].timestamp)
                /\ pc' = After(b)
                /\ ~Handed'
           /\ (pc = << b, "chk" >> /\ pc' # pc) =>
                pc' = (IF ReadyFor(b) THEN << b, IF b \in { "acc", "gyro" } THEN "x" ELSE "out" >>
                       ELSE After(b))
      /\ (pc = << "sd", "chk" >> /\ pc' # pc) =>
           /\ Flushed' = (LOGGER_SD /\ FlushReady(timestamp, last_sd_timestamp))
           /\ Flushed' => last_sd_timestamp' = timestamp
           /\ pc' = << "loop", "top" >> ]_vars

C16_Witness ==
  /\ pc = << "wheel", "out" >>
  /\ iterFailed
  /\ iterIds = << 1 >>
  /\ last_ldps_timestamp = timestamp

\* The names of the calls a step made, in order.
CallNames(cs) == [k \in 1..Len(cs) |-> cs[k].f]

\* C17: the pass of the rotation loop whose probe fails makes exactly the calls
\* open, close, create, open, seek, once each in that order, and enters the
\* sampling loop at the probed id, whether or not the create and the open
\* succeeded: nothing is retried and nothing else is called.  In the sampling
\* loop every hand-over with the storage sink configured writes the frame to
\* the log-file handle, also when that handle was never opened.
C17_RotationFailuresIgnored ==
  [][ /\ (pc = << "start", "probe" >> /\ (\E k \in 1..Len(calls') : calls'[k].f = "fx_file_create")) =>
           /\ CallNames(calls') = << "fx_file_open", "fx_file_close", "fx_file_create",
                                     "fx_file_open", "fx_file_seek" >>
           /\ pc' = << "loop", "top" >>
           /\ fid' = fid
      /\ (pc = << "start", "probe" >> /\ pc' = pc) =>
           CallNames(calls') \in { <<>>, << "fx_file_open" >> }
      /\ (Handed' /\ LOGGER_SD) =>
           \E k \in 1..Len(calls') :
             calls'[k] = Call("fx_file_write", logger_file, HandedFrame') ]_vars

C17_Witness ==
  /\ faulty
  /\ logger_file = NoFile
  /\ fid \notin files
  /\ Handed
  /\ \E k \in 1..Len(calls) : calls[k] = Call("fx_file_write", NoFile, HandedFrame)

\* The frame of class id built from nothing but the current iteration's tick
\* and the values vs read for it: timestamp, id, length byte where the class
\* has one, payload, trailer.
OwnFrame(id, ts, vs) ==
  TimestampBytes(ts)
    \o (CASE id = 1 -> << 1, LDPS_N * 2 >> \o Flatten([i \in 1..Len(vs) |-> LE16(vs[i])])
          [] id \in {2, 3} -> << id, 6 >> \o Flatten([i \in 1..Len(vs) |-> LE16(vs[i])])
          [] id = 4 -> << 4 >> \o Flatten([i \in 1..Len(vs) |-> LE32(vs[i])]))
    \o << 13, 10 >>

\* C18: every byte of a frame handed over was written in the current iteration
\* for that frame: the frame is, byte for byte, the current timestamp, the
\* class's id, its length byte where it has one, the values read for it and
\* the trailer, with nothing of an earlier frame in it; and buf is not written
\* between the end of a frame's encoding and the return of its hand-over.
C18_OwnBytesOnly ==
  [][ /\ Handed' => HandedFrame' = OwnFrame(HandedId', timestamp', sampled')
      /\ pc[2] = "out" => buf' = buf
      /\ buf' # buf => pc[2] \in { "top", "chk", "x", "y", "z" } ]_vars

C18_Witness ==
  /\ Handed
  /\ HandedId = 2
  /\ iterIds = << 1, 2 >>
  /\ lastSent[4] # NoTs
  /\ HandedFrame = OwnFrame(2, timestamp, sampled)

\* C19: the three axes of the last accelerometer or gyroscope frame handed over
\* were copied from one upstream update, and once the block is left the gate
\* holds the timestamp of that update.
C19_OneUpdatePerFrame ==
  \A s \in {"acc", "gyro"} :
    sentFrom[s] # <<>> =>
      /\ sentFrom[s][1] = sentFrom[s][2] /\ sentFrom[s][2] = sentFrom[s][3]
      /\ pc[1] # s => LastEdge(s) = sentFrom[s][1]

\* Ticks since boot, not reduced modulo 2^32: w wrap-arounds and the counter t,
\* as the digits << w, t[1], t[2] >> in base 2^32, 2^16, 1; a small n added;
\* the order.
Wide(w, t) == << w, t[1], t[2] >>

WidePlus(x, n) ==
  LET lo == x[3] + n
      hi == x[2] + lo \div Half
  IN << x[1] + hi \div Half, hi % Half, lo % Half >>

WideGt(x, y) ==
  \/ x[1] > y[1]
  \/ x[1] = y[1] /\ x[2] > y[2]
  \/ x[1] = y[1] /\ x[2] = y[2] /\ x[3] > y[3]

TickGates == { "ldps", "wheel", "sd" }

TickGateOf(g) == IF g = "sd" THEN last_sd_timestamp ELSE GateOf(g)

ThresholdOf(g) == IF g = "sd" THEN TX_TIMER_TICKS_PER_SECOND ELSE TickThreshold

\* The iteration's tick is more than the threshold of gate g past the tick the
\* gate records, counted in ticks since boot.
PastThreshold(g) ==
  WideGt(Wide(iterWraps, timestamp),
         WidePlus(Wide(gateWraps[g], TickGateOf(g)), ThresholdOf(g)))

\* The iteration's tick is less than 2^32 ticks past the tick the gate records.
Within32(g) ==
  WideGt(Wide(gateWraps[g] + 1, TickGateOf(g)), Wide(iterWraps, timestamp))

\* The check of gate g, taken in this step, found it ready.
FoundReady(g) == IF g = "sd" THEN Flushed' ELSE pc' = << g, "out" >>

Checks(g) == pc = << g, "chk" >> /\ pc' # pc /\ (g = "sd" => LOGGER_SD)

\* C20 (as claimed): a tick gate is found ready exactly in the iterations whose
\* tick is more than the threshold past the gate's recorded tick, counted in
\* ticks since boot, whenever consecutive iterations are less than 2^32 ticks
\* apart (as all iterations of the runs explored are).
C20_ReadyWhenPastThreshold ==
  [][ \A g \in TickGates : Checks(g) => (FoundReady(g) <=> PastThreshold(g)) ]_vars

\* C20 (amended): a tick gate is found ready exactly in the iterations whose
\* tick is more than the threshold past the gate's recorded tick, counted in
\* ticks since boot, whenever the iteration's tick is less than 2^32 ticks
\* past the gate's recorded tick (0 from boot), with or without a wrap-around
\* of the counter between the two.
C20_ReadyWhenPastThresholdWithin32 ==
  [][ \A g \in TickGates :
        (Checks(g) /\ Within32(g)) => (FoundReady(g) <=> PastThreshold(g)) ]_vars

C20_Witness ==
  /\ pc = << "ldps", "out" >>
  /\ iterWraps = 1
  /\ gateWraps.ldps = 0
  /\ last_ldps_timestamp # U32(0)
  /\ Gt32(last_ldps_timestamp, timestamp)
  /\ Within32("ldps")

====
